---- MODULE Spec2Model ----
(***************************************************************************)
(* The score computer's domain run loop (snap-score-computer/src/main.rs)  *)
(* as a state machine: one domain and the tick Domain::run_once cut at its *)
(* suspension points: the local-trust fetch, the snap-status fetch, every  *)
(* pass of the merge loop, and the loop's exit.  What the linear combiner, *)
(* the indexer, the compute engine and the stores answer is an input of    *)
(* the step that asks.                                                     *)
(*                                                                         *)
(* Values of type f64 are kept in thousandths (Milli = 1.0).               *)
(***************************************************************************)
EXTENDS Integers, Sequences, FiniteSets, TLC

VARIABLES
    interval,             \* Args::interval, as configured
    n_events,             \* number of records the upstreams have delivered (history)
    event_ts,             \* the timestamps of those records (history)
    ss_read,              \* the indexer entries read, in id order (history)
    local_trust_updates,  \* Domain fields
    snap_status_updates,
    peer_did_to_id,
    peer_id_to_did,
    lt_fetch_ts_form1,
    lt_fetch_ts_form0,
    ss_fetch_offset,
    ss_update_ts,
    last_update_ts,
    last_compute_ts,
    gt,
    snap_statuses,
    snap_scores,
    pc,                   \* position of run_once: "idle", "fetch_ss", "merge"
    l_lt,                 \* run_once's local local_trust_updates
    l_ss,                 \* run_once's local snap_status_updates
    next_lt_update,       \* Option<Update>: <<>> or <<update>>
    next_ss_update,
    ev,                   \* what the last step did (history)
    inflight,             \* records whose data is in l_lt, l_ss or the heads (history)
    held,                 \* records whose data is in the domain's pending maps (history)
    unapplied,            \* records read from upstream, not yet applied or dropped (history)
    max_applied_ts,       \* greatest timestamp of a successfully applied update (history)
    n_fail,               \* number of RPC and file-system errors so far
    computes,             \* the computes triggered so far (history)
    tick_work,            \* the tick found a record or a pending update (history)
    main_db,              \* linear combiner: the main store, key -> 4 bytes
    updates_db,           \* linear combiner: the update store
    lc_call,              \* sync_transformer's local offset: <<>> or <<offset>>
    lc_terms,             \* number of records sync_transformer has consumed (history)
    lc_ev,                \* what the last linear-combiner step did (history)
    first_id,             \* DID -> the peer-ID it was first assigned (history)
    key_forms,            \* matrix key -> the forms of the records written at it (history)
    idx_file,             \* indexer: the records of the cache file
    idx_data_len,         \* indexer: self.data.len()
    idx_query,            \* indexer: the last Query: <<>> or <<[offset, count]>>
    idx_stream,           \* indexer: the events the last subscribe sent
    lc_client,            \* linear combiner: the client whose call holds the stores
    update_cf,            \* UpdateManager: the "update" column family, key -> value
    um_ev,                \* what the last UpdateManager call did (history)
    drv_pc,               \* Main::main: "off", "init", "sleep", "run", "exited"
    drv_left,             \* Main::run_once: the domains the for loop has yet to visit
    drv_domains,          \* Main::domains: domain_id -> the domain's state
    drv_log,              \* the domains run in the current tick, with results (history)
    drv_ticks             \* number of ticks started (history)

vars == <<interval, n_events, event_ts, ss_read,
          local_trust_updates, snap_status_updates, peer_did_to_id,
          peer_id_to_did, lt_fetch_ts_form1, lt_fetch_ts_form0, ss_fetch_offset,
          ss_update_ts, last_update_ts, last_compute_ts, gt, snap_statuses,
          snap_scores, pc, l_lt, l_ss, next_lt_update, next_ss_update,
          ev, inflight, held, unapplied, max_applied_ts, n_fail, computes,
          tick_work,
          main_db, updates_db, lc_call, lc_terms, lc_ev, first_id, key_forms,
          idx_file, idx_data_len, idx_query, idx_stream,
          lc_client, update_cf, um_ev,
          drv_pc, drv_left, drv_domains, drv_log, drv_ticks>>

\* The score computer's, the linear combiner's and the indexer's variables.
sc_vars == <<interval, n_events, event_ts, ss_read,
             local_trust_updates, snap_status_updates, peer_did_to_id,
             peer_id_to_did, lt_fetch_ts_form1, lt_fetch_ts_form0,
             ss_fetch_offset, ss_update_ts, last_update_ts, last_compute_ts, gt,
             snap_statuses, snap_scores, pc, l_lt, l_ss, next_lt_update,
             next_ss_update, ev, inflight, held, unapplied, max_applied_ts,
             n_fail, computes, tick_work>>

lc_vars == <<main_db, updates_db, lc_call, lc_terms, lc_ev, first_id, key_forms>>

idx_vars == <<idx_file, idx_data_len, idx_query, idx_stream>>

\* The update manager's and the tick driver's variables, and the rest.
um_vars == <<update_cf, um_ev>>

drv_vars == <<drv_pc, drv_left, drv_domains, drv_log, drv_ticks>>

rest_vars == <<lc_client, um_vars, drv_vars>>

-----------------------------------------------------------------------------
(* Bounds and program constants *)

\* Records the upstreams deliver over a run (local-trust and status together).
MaxEvents == 2

\* RPC and file-system errors over a run.
MaxFailures == 1

\* #[arg(long, default_value = "600000")] interval
DefaultInterval == 600000

\* updates.entry(ts + 600000).or_default()
HeartbeatDelay == 600000

\* f64 1.0 in thousandths
Milli == 1000

\* The intervals a run may be configured with.
Intervals == {DefaultInterval, 1000}

\* Timestamps of upstream records: either side of the first window boundary.
Stamps == {interval - 1, interval + 1}

\* Domain::status_schema (default "2=4": schema 4 for domain 2)
status_schema == "4"

Dids == {"did:A", "did:B"}
Snaps == {"s1"}
Issuers == {"did:A"}
Statuses == {"Endorsed", "Disputed"}

\* What the compute engine may leave in the global trust vector (DID -> value).
EngineVectors ==
    { [d \in {"did:A", "did:B"} |-> Milli \div 2],
      [d \in {"did:A"} |-> Milli] }

-----------------------------------------------------------------------------
(* Maps (BTreeMap, HashMap) as functions *)

EmptyMap == [k \in {} |-> 0]

Put(m, k, v) == [x \in (DOMAIN m) \cup {k} |-> IF x = k THEN v ELSE m[x]]

Remove(m, k) == [x \in (DOMAIN m) \ {k} |-> m[x]]

Get(m, k, d) == IF k \in DOMAIN m THEN m[k] ELSE d

FirstKey(m) == CHOOSE k \in DOMAIN m : \A j \in DOMAIN m : k <= j

Max(a, b) == IF a >= b THEN a ELSE b

\* BTreeMap::pop_first as an Option<Update>
PopFirst(m, kind) ==
    IF DOMAIN m = {} THEN <<>>
    ELSE <<[timestamp |-> FirstKey(m), kind |-> kind, body |-> m[FirstKey(m)]]>>

AfterPop(m) == IF DOMAIN m = {} THEN m ELSE Remove(m, FirstKey(m))

\* All orders in which the members of S can be iterated.
Orders(S) ==
    { s \in [1..Cardinality(S) -> S] :
        \A i, j \in 1..Cardinality(S) : i # j => s[i] # s[j] }

\* The other two services at rest: stores as LinearCombinerService::new leaves
\* them, no call in progress.
LcUnused ==
    /\ main_db = [k \in {<<"checkpoint">>} |-> <<0, 0>>]
    /\ updates_db = EmptyMap
    /\ lc_call = <<>>
    /\ lc_terms = 0
    /\ lc_ev = [op |-> "none"]
    /\ first_id = EmptyMap
    /\ key_forms = EmptyMap

IdxUnused ==
    /\ idx_file = <<>>
    /\ idx_data_len = 0
    /\ idx_query = <<>>
    /\ idx_stream = <<>>

UmUnused ==
    /\ update_cf = EmptyMap
    /\ um_ev = [op |-> "none"]

DrvUnused ==
    /\ drv_pc = "off"
    /\ drv_left = {}
    /\ drv_domains = EmptyMap
    /\ drv_log = <<>>
    /\ drv_ticks = 0

RestUnused == lc_client = "none" /\ UmUnused /\ DrvUnused

-----------------------------------------------------------------------------
(* History records *)

LtRec(m, n) ==
    [kind |-> "lt", id |-> n, form |-> m.form, timestamp |-> m.timestamp]

SsRec(msg) ==
    [kind |-> "ss", id |-> msg.id, form |-> 0, timestamp |-> msg.entry.timestamp]

NoEvent ==
    [op |-> "none", result |-> "ok", kind |-> "none", ts |-> 0,
     applied |-> FALSE, dropped |-> FALSE, compute |-> "none", window |-> 0,
     published |-> "none", uploaded |-> "none", nread |-> 0, maxts |-> 0]

-----------------------------------------------------------------------------
(* What the upstreams can answer *)

\* Sequences over S of length at most n.
SeqsUpTo(S, n) == UNION {[1..k -> S] : k \in 0..n}

\* The messages a get_historic_data stream of the form can carry.
LtMessages(form) ==
    [form : {form}, x : {0}, y : {1}, value : {1}, timestamp : Stamps]

\* The credentials a subscribe stream can carry.
Credentials ==
    [well_formed : {TRUE}, type : {"StatusCredential"}, snap : Snaps,
     issuer : Issuers, current_status : Statuses, timestamp : Stamps]

\* Entries of which some do not parse: a schema_value that is not the JSON of
\* a credential, a credential of another type, a status that is neither
\* Endorsed nor Disputed.
ParseCredentials ==
    { c \in [well_formed : BOOLEAN,
             type : {"StatusCredential", "OtherCredential"},
             snap : Snaps, issuer : Issuers,
             current_status : {"Endorsed", "Revoked"}, timestamp : Stamps] :
        \/ c.well_formed /\ (c.type = "StatusCredential" \/ c.current_status = "Endorsed")
        \/ c.type = "StatusCredential" /\ c.current_status = "Endorsed" }

\* The mappings get_did_mapping can stream.
DidMappings == { [d \in Dids |-> IF d = "did:A" THEN 0 ELSE 1] }

\* The mappings get_did_mapping can stream from a main store in which two
\* DIDs hold the same peer-ID.
DidMappingsShared == DidMappings \cup { [d \in Dids |-> 0] }

\* The events of a subscribe stream opened at offset:
\* id: (index as u32) + (offset as u32)
Subscribed(offset, entries) ==
    [i \in 1..Len(entries) |-> [id |-> offset + i - 1, entry |-> entries[i]]]

-----------------------------------------------------------------------------
(* Domain::fetch_local_trust *)

\* The timestamp of the empty entry a fetch adds after its latest record.
HeartbeatTs(ts) == ts + HeartbeatDelay

\* A fetch that adds the empty entry whether or not a record was read.
HeartbeatAlways(updates, last_timestamp) ==
    Put(updates,
        HeartbeatTs(IF last_timestamp = <<>> THEN 0 ELSE last_timestamp[1]),
        Get(updates,
            HeartbeatTs(IF last_timestamp = <<>> THEN 0 ELSE last_timestamp[1]),
            EmptyMap))

\* updates.entry(ts + 600000).or_default(), when a record was read
WithHeartbeat(updates, last_timestamp) ==
    IF last_timestamp = <<>> THEN updates
    ELSE IF HeartbeatTs(last_timestamp[1]) \in DOMAIN updates THEN updates
    ELSE Put(updates, HeartbeatTs(last_timestamp[1]), EmptyMap)

LaterOf(last_timestamp, ts) ==
    IF last_timestamp = <<>> THEN <<ts>>
    ELSE IF last_timestamp[1] < ts THEN <<ts>>
    ELSE last_timestamp

\* The while-let loop over one form's stream. st.timestamp is the form's
\* high-watermark, weight the form's sign.
RECURSIVE ReadLtStream(_, _, _)
ReadLtStream(msgs, weight, st) ==
    IF msgs = <<>> THEN st
    ELSE LET msg == Head(msgs) IN
         IF msg.timestamp < st.timestamp
         THEN ReadLtStream(Tail(msgs), weight, [st EXCEPT !.seen = @ + 1])
         ELSE LET batch == Get(st.updates, msg.timestamp, EmptyMap)
                  cell == <<msg.x, msg.y>>
              IN  ReadLtStream(Tail(msgs), weight,
                     [timestamp |-> msg.timestamp,
                      last_timestamp |-> LaterOf(st.last_timestamp, msg.timestamp),
                      updates |-> Put(st.updates, msg.timestamp,
                          Put(batch, cell, Get(batch, cell, 0) + msg.value * weight)),
                      read |-> st.read \cup {LtRec(msg, st.seen)},
                      seen |-> st.seen + 1])

\* Where the fetch can fail: in the stream of form 1 (the stream of form 0 is
\* then never opened) or in the stream of form 0.
LtFailures(s0) ==
    {"none"} \cup IF n_fail < MaxFailures
                  THEN {"form0"} \cup IF s0 = <<>> THEN {"form1"} ELSE {}
                  ELSE {}

\* run_once, from its start to the end of fetch_local_trust. s1 and s0 are the
\* messages the two streams deliver before they end or fail.
FetchLocalTrust ==
    /\ pc = "idle"
    /\ \E s1 \in SeqsUpTo(LtMessages(1), MaxEvents - n_events) :
       \E s0 \in SeqsUpTo(LtMessages(0), MaxEvents - n_events - Len(s1)) :
       \E fail \in LtFailures(s0) :
       \E r1 \in {ReadLtStream(s1, 1,
                     [timestamp |-> lt_fetch_ts_form1, last_timestamp |-> <<>>,
                      updates |-> local_trust_updates, read |-> {},
                      seen |-> n_events])} :
       \E r0 \in {ReadLtStream(s0, -1, [r1 EXCEPT !.timestamp = lt_fetch_ts_form0])} :
        LET ok == fail = "none"
        IN  /\ lt_fetch_ts_form1' = r1.timestamp
            /\ lt_fetch_ts_form0' = r0.timestamp
            /\ l_lt' = IF ok THEN WithHeartbeat(r0.updates, r0.last_timestamp)
                       ELSE EmptyMap
            /\ pc' = IF ok THEN "fetch_ss" ELSE "idle"
            /\ n_events' = n_events + Len(s1) + Len(s0)
            /\ event_ts' = event_ts \cup {s1[i].timestamp : i \in 1..Len(s1)}
                                    \cup {s0[i].timestamp : i \in 1..Len(s0)}
            /\ inflight' = IF ok THEN held \cup r0.read ELSE {}
            /\ unapplied' = unapplied \cup r0.read
            /\ n_fail' = IF ok THEN n_fail ELSE n_fail + 1
            /\ tick_work' = (s1 # <<>> \/ s0 # <<>>
                              \/ local_trust_updates # EmptyMap
                              \/ snap_status_updates # EmptyMap)
            /\ ev' = [NoEvent EXCEPT !.op = "fetch_lt",
                        !.result = IF ok THEN "ok" ELSE "err",
                        !.nread = Cardinality(r0.read),
                        !.maxts = IF r0.last_timestamp = <<>> THEN 0
                                  ELSE r0.last_timestamp[1]]
    /\ UNCHANGED <<interval, ss_read, local_trust_updates,
                   snap_status_updates, peer_did_to_id, peer_id_to_did,
                   ss_fetch_offset, ss_update_ts, last_update_ts,
                   last_compute_ts, gt, snap_statuses, snap_scores, l_ss,
                   next_lt_update, next_ss_update, held, max_applied_ts, computes,
                   lc_vars, idx_vars,
                   rest_vars>>

-----------------------------------------------------------------------------
(* Domain::fetch_snap_statuses *)

\* A parse that takes every status other than Endorsed for Disputed.
snap_status_lenient(vc) ==
    IF ~vc.well_formed THEN <<>>
    ELSE IF vc.type # "StatusCredential" THEN <<>>
    ELSE <<[snap |-> vc.snap, issuer |-> vc.issuer,
            value |-> IF vc.current_status = "Endorsed" THEN Milli ELSE 0]>>

\* Option<(SnapId, IssuerId, Value)>: <<>> for Err
snap_status_from_vc(vc) ==
    IF ~vc.well_formed THEN <<>>
    ELSE IF vc.type # "StatusCredential" THEN <<>>
    ELSE IF vc.current_status = "Endorsed"
         THEN <<[snap |-> vc.snap, issuer |-> vc.issuer, value |-> Milli]>>
    ELSE IF vc.current_status = "Disputed"
         THEN <<[snap |-> vc.snap, issuer |-> vc.issuer, value |-> 0]>>
    ELSE <<>>

\* updates.entry(ts).or_default().entry(snap_id).or_default().insert(issuer_id, value)
PutStatus(updates, ts, st) ==
    LET at_ts == Get(updates, ts, EmptyMap)
        at_snap == Get(at_ts, st.snap, EmptyMap)
    IN  Put(updates, ts, Put(at_ts, st.snap, Put(at_snap, st.issuer, st.value)))

\* The while-let loop over one subscribe stream.
RECURSIVE ReadSsStream(_, _)
ReadSsStream(msgs, st) ==
    IF msgs = <<>> THEN st
    ELSE LET msg == Head(msgs)
             parsed == snap_status_from_vc(msg.entry)
         IN  ReadSsStream(Tail(msgs),
                [fetch_offset |-> msg.id + 1,
                 last_timestamp |-> LaterOf(st.last_timestamp, msg.entry.timestamp),
                 updates |-> IF parsed = <<>> THEN st.updates
                             ELSE PutStatus(st.updates, msg.entry.timestamp, parsed[1]),
                 read |-> IF parsed = <<>> THEN st.read
                          ELSE st.read \cup {SsRec(msg)}])

\* run_once, from the end of fetch_local_trust to the first pass of the merge
\* loop: fetch_snap_statuses when a status schema is set, then the two heads.
\* entries are the credentials the subscribe streams deliver, one stream
\* after the other, before the empty stream or the failure, drawn from creds.
FetchSs(creds) ==
    /\ pc = "fetch_ss"
    /\ \E entries \in SeqsUpTo(creds,
                        IF status_schema = "" THEN 0 ELSE MaxEvents - n_events) :
       \E fail \in IF n_fail < MaxFailures /\ status_schema # ""
                   THEN BOOLEAN ELSE {FALSE} :
       \E r \in {ReadSsStream(Subscribed(ss_fetch_offset, entries),
                    [fetch_offset |-> ss_fetch_offset, last_timestamp |-> <<>>,
                     updates |-> snap_status_updates, read |-> {}])} :
        LET ok == ~fail
            fetched == WithHeartbeat(r.updates, r.last_timestamp)
        IN  /\ ss_fetch_offset' = r.fetch_offset
            /\ ss_read' = ss_read \o entries
            /\ n_events' = n_events + Len(entries)
            /\ event_ts' = event_ts \cup {entries[i].timestamp : i \in 1..Len(entries)}
            /\ pc' = IF ok THEN "merge" ELSE "idle"
            /\ next_lt_update' = IF ok THEN PopFirst(l_lt, "lt") ELSE <<>>
            /\ next_ss_update' = IF ok THEN PopFirst(fetched, "ss") ELSE <<>>
            /\ l_lt' = IF ok THEN AfterPop(l_lt) ELSE EmptyMap
            /\ l_ss' = IF ok THEN AfterPop(fetched) ELSE EmptyMap
            /\ inflight' = IF ok THEN inflight \cup r.read ELSE {}
            /\ unapplied' = unapplied \cup r.read
            /\ n_fail' = IF ok THEN n_fail ELSE n_fail + 1
            /\ tick_work' = (tick_work \/ entries # <<>>)
            /\ ev' = [NoEvent EXCEPT !.op = "fetch_ss",
                        !.result = IF ok THEN "ok" ELSE "err",
                        !.nread = Len(entries),
                        !.maxts = IF r.last_timestamp = <<>> THEN 0
                                  ELSE r.last_timestamp[1]]
    /\ UNCHANGED <<interval, local_trust_updates, snap_status_updates,
                   peer_did_to_id, peer_id_to_did, lt_fetch_ts_form1,
                   lt_fetch_ts_form0, ss_update_ts, last_update_ts,
                   last_compute_ts, gt, snap_statuses, snap_scores, held,
                   max_applied_ts, computes, lc_vars, idx_vars,
                   rest_vars>>

FetchSnapStatuses == FetchSs(Credentials)

-----------------------------------------------------------------------------
(* Domain::run_once, the merge loop *)

\* A merge that takes the snap-status head on a tie.
PickLtStrict(lt_ts, ss_ts) == lt_ts < ss_ts

\* if lt_ts <= ss_ts { next_lt_update.take() } else { next_ss_update.take() }
PickLt(lt_ts, ss_ts) == lt_ts <= ss_ts

\* A merge that drops nothing.
AlwaysApply(ts, last_update) == TRUE

\* if ts >= self.last_update_ts
ShouldApply(ts, last_update) == ts >= last_update

\* A window that is not aligned to the interval.
TsWindowUnaligned(ts, iv) == ts

\* let ts_window = ts / interval * interval
TsWindow(ts, iv) == (ts \div iv) * iv

\* A trigger that also fires inside the window already computed.
ShouldComputeInclusive(last_compute, ts_window) == last_compute <= ts_window

\* A trigger that fires on every applied update.
ShouldComputeAlways(last_compute, ts_window) == TRUE

\* if self.last_compute_ts < ts_window
ShouldCompute(last_compute, ts_window) == last_compute < ts_window

\* self.peer_did_to_id.iter().map(|(did, id)| (*id, did.clone())).collect()
Inverse(did_to_id) ==
    [id \in {did_to_id[d] : d \in DOMAIN did_to_id} |->
        CHOOSE d \in DOMAIN did_to_id : did_to_id[d] = id]

\* run_et's last loop: the engine's vector, kept for the DIDs the mapping knows
ProjectGt(vector, did_to_id) ==
    LET known == (DOMAIN vector) \cap (DOMAIN did_to_id)
    IN  [id \in {did_to_id[d] : d \in known} |->
            vector[CHOOSE d \in known : did_to_id[d] = id]]

\* A failed compute answered with a uniform vector over the known peers.
AfterRunEtUniform(d, et) ==
    IF et = <<>> THEN [d EXCEPT !.gt = [id \in DOMAIN d.peer_id_to_did |-> Milli]]
    ELSE [d EXCEPT !.gt = ProjectGt(et[1], d.peer_did_to_id)]

\* match Self::run_et(..).await { Ok(gt1) => self.gt = gt1, Err(e) => error!(..) }
AfterRunEt(d, et) ==
    IF et = <<>> THEN d
    ELSE [d EXCEPT !.gt = ProjectGt(et[1], d.peer_did_to_id)]

\* An unknown issuer counted with full weight.
IssuerWeightDefault(issuer_did, did_to_id, gtv) ==
    IF issuer_did \in DOMAIN did_to_id
    THEN Get(gtv, did_to_id[issuer_did], 0)
    ELSE Milli

\* self.peer_did_to_id.get(&issuer_did), then self.gt.get(id).map_or(0.0, |t| *t);
\* an unknown issuer is warned about and adds nothing.
IssuerWeight(issuer_did, did_to_id, gtv) ==
    IF issuer_did \in DOMAIN did_to_id
    THEN Get(gtv, did_to_id[issuer_did], 0)
    ELSE 0

\* if weight > 0.0 { *score_value = opinion * weight; *score_confidence += weight; }
AddOpinion(acc, opinion, weight) ==
    IF weight > 0
    THEN [value |-> (opinion * weight) \div Milli,
          confidence |-> acc.confidence + weight]
    ELSE acc

\* A score left undivided.
NormalizeSkipped(acc) == acc

\* if *score_confidence != 0.0 { *score_value /= *score_confidence; }
Normalize(acc) ==
    IF acc.confidence # 0
    THEN [acc EXCEPT !.value = (acc.value * Milli) \div acc.confidence]
    ELSE acc

\* compute_snap_scores, one snap: its opinions iterated in the given order
RECURSIVE SnapScore(_, _, _, _, _)
SnapScore(opinions, order, did_to_id, gtv, acc) ==
    IF order = <<>> THEN Normalize(acc)
    ELSE SnapScore(opinions, Tail(order), did_to_id, gtv,
            AddOpinion(acc, opinions[Head(order)],
                       IssuerWeight(Head(order), did_to_id, gtv)))

\* The orders a HashMap of opinions per snap can be iterated in.
OpinionOrders(statuses) ==
    { f \in [DOMAIN statuses ->
                UNION {Orders(DOMAIN statuses[s]) : s \in DOMAIN statuses}] :
        \A s \in DOMAIN statuses : f[s] \in Orders(DOMAIN statuses[s]) }

compute_snap_scores(statuses, did_to_id, gtv, ord) ==
    [s \in DOMAIN statuses |->
        SnapScore(statuses[s], ord[s], did_to_id, gtv,
                  [value |-> 0, confidence |-> 0])]

\* The SnapStatuses arm of the update body: every opinion overwrites.
MergeStatuses(statuses, body) ==
    [s \in (DOMAIN statuses) \cup (DOMAIN body) |->
        IF s \notin DOMAIN body THEN statuses[s]
        ELSE [i \in (DOMAIN Get(statuses, s, EmptyMap)) \cup (DOMAIN body[s]) |->
                IF i \in DOMAIN body[s] THEN body[s][i] ELSE statuses[s][i]]]

\* A publish that leaves out the call of compute_snap_scores.
PublishScoresStale(d, o) ==
    [d |-> d, err |-> o.pub # "ok",
     published |-> IF o.pub = "ok" THEN "ok" ELSE "err"]

\* publish_scores: o.pub is "ok", "early" (an error before compute_snap_scores:
\* the zip file or the peer credentials) or "late" (an error after it: the
\* snap credentials, the manifest, the upload).
PublishScores(d, o) ==
    IF o.pub = "early" THEN [d |-> d, err |-> TRUE, published |-> "err"]
    ELSE [d |-> [d EXCEPT !.snap_scores =
                    compute_snap_scores(d.snap_statuses, d.peer_did_to_id, d.gt, o.ord)],
          err |-> o.pub = "late",
          published |-> IF o.pub = "ok" THEN "ok" ELSE "err"]

\* The body of `if self.last_compute_ts < ts_window`. o.map is the DID mapping
\* fetched (<<>>: the fetch failed), o.et the engine's vector (<<>>: run_et failed).
Compute(d, ts_window, o) ==
    LET d1 == [d EXCEPT !.last_compute_ts = ts_window]
    IN  IF o.map = <<>>
        THEN [d |-> d1, err |-> TRUE, compute |-> "aborted", published |-> "none"]
        ELSE LET d2 == [d1 EXCEPT !.peer_did_to_id = o.map[1],
                                  !.peer_id_to_did = Inverse(o.map[1])]
                 d3 == AfterRunEt(d2, o.et)
                 p == PublishScores(d3, o)
             IN  [d |-> p.d, err |-> p.err,
                  compute |-> IF o.et = <<>> THEN "failed" ELSE "ok",
                  published |-> p.published]

\* match update.body
Apply(d, update, o) ==
    IF update.kind = "lt"
    THEN IF DOMAIN update.body # {}
         THEN [d |-> d, err |-> ~o.up, uploaded |-> IF o.up THEN "ok" ELSE "err"]
         ELSE [d |-> d, err |-> FALSE, uploaded |-> "none"]
    ELSE [d |-> [d EXCEPT !.snap_statuses = MergeStatuses(@, update.body),
                          !.ss_update_ts = update.timestamp],
          err |-> FALSE, uploaded |-> "none"]

\* One pass of the while loop on the update taken from the heads.
MergeResult(d, update, iv, o) ==
    LET ts == update.timestamp
        d0 == [d EXCEPT !.gt = EmptyMap]
        ts_window == TsWindow(ts, iv)
    IN  IF ~ShouldApply(ts, d.last_update_ts)
        THEN [d |-> d0, err |-> FALSE, applied |-> FALSE, dropped |-> TRUE,
              compute |-> "none", published |-> "none", uploaded |-> "none",
              kind |-> update.kind, ts |-> ts, window |-> ts_window]
        ELSE LET d1 == [d0 EXCEPT !.last_update_ts = ts]
                 c == IF ShouldCompute(d1.last_compute_ts, ts_window)
                      THEN Compute(d1, ts_window, o)
                      ELSE [d |-> d1, err |-> FALSE, compute |-> "none",
                            published |-> "none"]
                 a == IF c.err THEN [d |-> c.d, err |-> TRUE, uploaded |-> "none"]
                      ELSE Apply(c.d, update, o)
             IN  [d |-> a.d, err |-> a.err, applied |-> ~a.err, dropped |-> FALSE,
                  compute |-> c.compute, published |-> c.published,
                  uploaded |-> a.uploaded,
                  kind |-> update.kind, ts |-> ts, window |-> ts_window]

\* The fields of Domain the merge loop writes.
DomainFields ==
    [last_update_ts |-> last_update_ts, last_compute_ts |-> last_compute_ts,
     peer_did_to_id |-> peer_did_to_id, peer_id_to_did |-> peer_id_to_did,
     gt |-> gt, snap_statuses |-> snap_statuses, snap_scores |-> snap_scores,
     ss_update_ts |-> ss_update_ts]

\* The update the loop takes next, and whether it is the local-trust head.
TakesLt ==
    IF next_lt_update = <<>> THEN FALSE
    ELSE IF next_ss_update = <<>> THEN TRUE
    ELSE PickLt(next_lt_update[1].timestamp, next_ss_update[1].timestamp)

NextUpdate == IF TakesLt THEN next_lt_update[1] ELSE next_ss_update[1]

\* The errors a pass met.
Failures(r) ==
    (IF r.compute \in {"aborted", "failed"} THEN 1 ELSE 0)
    + (IF r.published = "err" THEN 1 ELSE 0)
    + (IF r.uploaded = "err" THEN 1 ELSE 0)

\* What the RPCs and the file system can answer during one pass: only the
\* answers the pass asks for vary. maps are the DID mappings the linear
\* combiner can stream.
OutcomesOf(maps, d, update, iv) ==
    LET applies == ShouldApply(update.timestamp, d.last_update_ts)
        computes_now == applies /\ ShouldCompute(d.last_compute_ts,
                                                 TsWindow(update.timestamp, iv))
        uploads == applies /\ update.kind = "lt" /\ DOMAIN update.body # {}
    IN  [map : IF computes_now THEN {<<>>} \cup {<<m>> : m \in maps}
               ELSE {<<>>},
         et  : IF computes_now THEN {<<>>} \cup {<<v>> : v \in EngineVectors}
               ELSE {<<>>},
         pub : IF computes_now THEN {"ok", "early", "late"} ELSE {"ok"},
         ord : IF computes_now THEN OpinionOrders(d.snap_statuses)
               ELSE {EmptyMap},
         up  : IF uploads THEN BOOLEAN ELSE {TRUE}]

Outcomes(d, update, iv) == OutcomesOf(DidMappings, d, update, iv)

\* A loop that ends as soon as one head is None.
LoopDoneEither(lt, ss) == lt = <<>> \/ ss = <<>>

\* The negation of: while next_lt_update.is_some() || next_ss_update.is_some()
LoopDone(lt, ss) == lt = <<>> /\ ss = <<>>

Merge(maps) ==
    /\ pc = "merge"
    /\ ~LoopDone(next_lt_update, next_ss_update)
    /\ \E o \in OutcomesOf(maps, DomainFields, NextUpdate, interval) :
      \E r \in {MergeResult(DomainFields, NextUpdate, interval, o)} :
        LET update == NextUpdate
            lt_left == IF TakesLt THEN <<>> ELSE next_lt_update
            ss_left == IF TakesLt THEN next_ss_update ELSE <<>>
            refill_lt == lt_left = <<>>
            refill_ss == ss_left = <<>>
            handled == {e \in inflight :
                          e.kind = update.kind /\ e.timestamp = update.timestamp}
        IN  /\ n_fail + Failures(r) <= MaxFailures
            /\ last_update_ts' = r.d.last_update_ts
            /\ last_compute_ts' = r.d.last_compute_ts
            /\ peer_did_to_id' = r.d.peer_did_to_id
            /\ peer_id_to_did' = r.d.peer_id_to_did
            /\ gt' = r.d.gt
            /\ snap_statuses' = r.d.snap_statuses
            /\ snap_scores' = r.d.snap_scores
            /\ ss_update_ts' = r.d.ss_update_ts
            /\ pc' = IF r.err THEN "idle" ELSE "merge"
            /\ next_lt_update' = IF r.err THEN <<>>
                                 ELSE IF refill_lt THEN PopFirst(l_lt, "lt")
                                 ELSE lt_left
            /\ next_ss_update' = IF r.err THEN <<>>
                                 ELSE IF refill_ss THEN PopFirst(l_ss, "ss")
                                 ELSE ss_left
            /\ l_lt' = IF r.err THEN EmptyMap
                       ELSE IF refill_lt THEN AfterPop(l_lt) ELSE l_lt
            /\ l_ss' = IF r.err THEN EmptyMap
                       ELSE IF refill_ss THEN AfterPop(l_ss) ELSE l_ss
            /\ inflight' = IF r.err THEN {} ELSE inflight \ handled
            /\ unapplied' = IF r.err THEN unapplied ELSE unapplied \ handled
            /\ max_applied_ts' = IF r.applied THEN Max(max_applied_ts, r.ts)
                                 ELSE max_applied_ts
            /\ n_fail' = n_fail + Failures(r)
            /\ tick_work' = tick_work
            /\ computes' = IF r.compute = "none" THEN computes
                           ELSE Append(computes,
                                  [window |-> r.window, ts |-> r.ts])
            /\ ev' = [NoEvent EXCEPT !.op = "merge",
                        !.result = IF r.err THEN "err" ELSE "ok",
                        !.kind = r.kind, !.ts = r.ts, !.applied = r.applied,
                        !.dropped = r.dropped, !.compute = r.compute,
                        !.window = r.window, !.published = r.published,
                        !.uploaded = r.uploaded]
    /\ UNCHANGED <<interval, n_events, event_ts, ss_read,
                   local_trust_updates, snap_status_updates, lt_fetch_ts_form1,
                   lt_fetch_ts_form0, ss_fetch_offset, held, lc_vars, idx_vars,
                   rest_vars>>

MergeUpdate == Merge(DidMappings)

\* The loop's exit: the heads (both None) go back to the pending maps, which
\* are then replaced by the locals.
Finish ==
    /\ pc = "merge"
    /\ LoopDone(next_lt_update, next_ss_update)
    /\ local_trust_updates' = l_lt
    /\ snap_status_updates' = l_ss
    /\ held' = inflight
    /\ inflight' = {}
    /\ l_lt' = EmptyMap
    /\ l_ss' = EmptyMap
    /\ pc' = "idle"
    /\ ev' = [NoEvent EXCEPT !.op = "finish"]
    /\ UNCHANGED <<interval, n_events, event_ts, ss_read,
                   peer_did_to_id, peer_id_to_did, lt_fetch_ts_form1,
                   lt_fetch_ts_form0, ss_fetch_offset, ss_update_ts,
                   last_update_ts, last_compute_ts, gt, snap_statuses,
                   snap_scores, next_lt_update, next_ss_update, unapplied,
                   max_applied_ts, n_fail, computes, tick_work, lc_vars, idx_vars,
                   rest_vars>>

-----------------------------------------------------------------------------
(* Main::new and the specification *)

Init ==
    /\ interval \in Intervals
    /\ n_events = 0
    /\ event_ts = {}
    /\ ss_read = <<>>
    /\ local_trust_updates = EmptyMap
    /\ snap_status_updates = EmptyMap
    /\ peer_did_to_id = EmptyMap
    /\ peer_id_to_did = EmptyMap
    /\ lt_fetch_ts_form1 = 0
    /\ lt_fetch_ts_form0 = 0
    /\ ss_fetch_offset = 0
    /\ ss_update_ts = 0
    /\ last_update_ts = 0
    /\ last_compute_ts = 0
    /\ gt = EmptyMap
    /\ snap_statuses = EmptyMap
    /\ snap_scores = EmptyMap
    /\ pc = "idle"
    /\ l_lt = EmptyMap
    /\ l_ss = EmptyMap
    /\ next_lt_update = <<>>
    /\ next_ss_update = <<>>
    /\ ev = NoEvent
    /\ inflight = {}
    /\ held = {}
    /\ unapplied = {}
    /\ max_applied_ts = 0
    /\ n_fail = 0
    /\ computes = <<>>
    /\ tick_work = FALSE
    /\ LcUnused
    /\ IdxUnused
    /\ RestUnused

Next ==
    \/ FetchLocalTrust
    \/ FetchSnapStatuses
    \/ MergeUpdate
    \/ Finish

Spec == Init /\ [][Next]_vars

-----------------------------------------------------------------------------
(* Claims *)

\* The merge loop has an update to take.
HasNext == pc = "merge" /\ (next_lt_update # <<>> \/ next_ss_update # <<>>)

\* A record the fetch cursors are not past: the next tick does not skip it.
Refetchable(e) ==
    IF e.kind = "lt"
    THEN e.timestamp >= (IF e.form = 1 THEN lt_fetch_ts_form1 ELSE lt_fetch_ts_form0)
    ELSE e.id >= ss_fetch_offset

\* C1: when a tick has returned an error, every record that was read from
\* upstream and not applied is in the domain's pending maps or is not behind
\* its fetch cursor.
C1_NoUpdateLost ==
    (pc = "idle" /\ ev.result = "err") =>
        \A e \in unapplied : e \in held \/ Refetchable(e)

\* The status credentials delivered for (snap, issuer).
Delivered(snap, issuer) ==
    {p \in 1..Len(ss_read) :
        /\ snap_status_from_vc(ss_read[p]) # <<>>
        /\ ss_read[p].snap = snap
        /\ ss_read[p].issuer = issuer}

\* C2: after ticks that met no error, snap_statuses[s][i] is the value of the
\* delivered credential for (s, i) with the greatest timestamp, however the
\* credentials were split across ticks.
C2_LatestStatus ==
    (pc = "idle" /\ n_fail = 0) =>
        \A snap \in Snaps, issuer \in Issuers :
            \A p \in Delivered(snap, issuer) :
                (\A q \in Delivered(snap, issuer) \ {p} :
                    ss_read[q].timestamp < ss_read[p].timestamp)
                => /\ snap \in DOMAIN snap_statuses
                   /\ issuer \in DOMAIN snap_statuses[snap]
                   /\ snap_statuses[snap][issuer] = snap_status_from_vc(ss_read[p])[1].value

\* C3: last_compute_ts is always a multiple of the interval, and no step
\* decreases it.
C3_LastComputeTs ==
    /\ [](last_compute_ts % interval = 0)
    /\ [][last_compute_ts' >= last_compute_ts]_vars

C3_Witness == pc = "idle" /\ last_compute_ts > interval /\ n_fail > 0

\* The timestamps of the local-trust updates pending in a tick.
PendingLt ==
    (DOMAIN l_lt) \cup {next_lt_update[i].timestamp : i \in 1..Len(next_lt_update)}

PendingSs ==
    (DOMAIN l_ss) \cup {next_ss_update[i].timestamp : i \in 1..Len(next_ss_update)}

\* C4: an update that is applied has a timestamp not less than that of any
\* update applied before it, in this tick or an earlier one, and a snap-status
\* update is not applied while a local-trust update with the same timestamp
\* is pending.
C4_AppliedInOrder ==
    [][(pc = "merge" /\ ev'.op = "merge" /\ ~ev'.dropped) =>
          /\ ev'.ts >= max_applied_ts
          /\ ev'.ts >= last_update_ts
          /\ \A t \in PendingLt \cup PendingSs : ev'.ts <= t
          /\ ev'.kind = "ss" => ev'.ts \notin PendingLt]_vars

C4_Witness ==
    /\ ev.op = "merge" /\ ev.applied /\ ev.kind = "lt" /\ ev.uploaded = "ok"
    /\ next_ss_update # <<>>
    /\ next_ss_update[1].timestamp = ev.ts
    /\ next_ss_update[1].body # EmptyMap

\* C5: after a fetch that read at least one record, the latest at T, the
\* pending map of the fetch has an entry at T + interval.
C5_HeartbeatAtInterval ==
    /\ (ev.op = "fetch_lt" /\ ev.result = "ok" /\ ev.nread > 0)
          => (ev.maxts + interval) \in DOMAIN l_lt
    /\ (ev.op = "fetch_ss" /\ ev.result = "ok" /\ ev.nread > 0)
          => (ev.maxts + interval) \in PendingSs

\* Between ticks, the only two records delivered are one at interval - 1 and
\* one at interval + 1, and every tick went without an error.
BoundaryPair ==
    /\ pc = "idle"
    /\ n_fail = 0
    /\ n_events = 2
    /\ event_ts = {interval - 1, interval + 1}

C8_LastUpdateTs == pc = "idle" => last_update_ts = max_applied_ts

\* C9: merging an update whose timestamp is below last_update_ts leaves
\* last_update_ts, last_compute_ts, snap_statuses, snap_scores, ss_update_ts
\* and the peer maps unchanged, and triggers no compute, no publish and no
\* upload.
C9_DroppedFrame ==
    [][(HasNext /\ NextUpdate.timestamp < last_update_ts) =>
          /\ UNCHANGED <<last_update_ts, last_compute_ts, snap_statuses,
                         snap_scores, ss_update_ts, peer_did_to_id,
                         peer_id_to_did, computes, n_fail>>
          /\ ev'.dropped /\ ~ev'.applied
          /\ ev'.compute = "none"
          /\ ev'.published = "none"
          /\ ev'.uploaded = "none"]_vars

C9_Witness ==
    /\ ev.op = "merge" /\ ev.dropped /\ ev.kind = "ss"
    /\ ev.ts < last_update_ts
    /\ \E p \in 1..Len(ss_read) : ss_read[p].timestamp = ev.ts
    /\ snap_statuses = EmptyMap

\* A step of run_once.
TickStep == ev'.op \in {"fetch_lt", "fetch_ss", "merge", "finish"}

\* C10: in a tick that reads no record from either upstream and starts with
\* empty pending maps, no step changes the fetch cursors, last_update_ts,
\* last_compute_ts, gt, snap_statuses, snap_scores or the pending maps, and
\* none computes, publishes or uploads.
C10_EmptyTickNoOp ==
    [][(TickStep /\ ~tick_work') =>
          /\ UNCHANGED <<lt_fetch_ts_form0, lt_fetch_ts_form1, ss_fetch_offset,
                         last_update_ts, last_compute_ts, gt, snap_statuses,
                         snap_scores, local_trust_updates, snap_status_updates,
                         ss_update_ts, peer_did_to_id, peer_id_to_did>>
          /\ ev'.op # "merge"
          /\ ev'.compute = "none"
          /\ ev'.published = "none"
          /\ ev'.uploaded = "none"]_vars

C10_Witness ==
    /\ ev.op = "finish" /\ ~tick_work
    /\ n_fail = 0
    /\ last_update_ts > 0
    /\ snap_statuses # EmptyMap

\* C22: an update that passes the last_update_ts check triggers a compute
\* exactly when the start of its window is greater than last_compute_ts, and
\* the windows of the computes triggered so far, over all ticks, are strictly
\* increasing: none is computed or published twice.
C22_ComputeOncePerWindow ==
    /\ [][(HasNext /\ ev'.op = "merge" /\ ~ev'.dropped) =>
            ((ev'.compute # "none")
                <=> (TsWindow(NextUpdate.timestamp, interval) > last_compute_ts))]_vars
    /\ [](\A i, j \in 1..Len(computes) :
            i < j => computes[i].window < computes[j].window)

C22_Witness ==
    /\ Len(computes) >= 2
    /\ ev.op = "merge" /\ ev.applied /\ ev.compute = "none"
    /\ ev.window = last_compute_ts
    /\ n_fail > 0

\* The run loop fed with indexer entries of which some do not parse.
FetchSnapStatusesUnparsed == FetchSs(ParseCredentials)

ParseNext ==
    \/ FetchLocalTrust
    \/ FetchSnapStatusesUnparsed
    \/ MergeUpdate
    \/ Finish

SpecParse == Init /\ [][ParseNext]_vars

\* An entry that is a StatusCredential with a status of Endorsed or Disputed.
IsStatusCredential(c) ==
    /\ c.well_formed
    /\ c.type = "StatusCredential"
    /\ c.current_status \in {"Endorsed", "Disputed"}

\* The snap-status updates the tick holds after its fetch.
FetchedSs ==
    IF next_ss_update = <<>> THEN l_ss
    ELSE Put(l_ss, next_ss_update[1].timestamp, next_ss_update[1].body)

\* Option: the opinion the map holds at (ts, snap, issuer).
Opinion(m, ts, snap, issuer) ==
    IF ts \in DOMAIN m /\ snap \in DOMAIN m[ts] /\ issuer \in DOMAIN m[ts][snap]
    THEN <<m[ts][snap][issuer]>>
    ELSE <<>>

\* C25: a fetch of snap statuses moves ss_fetch_offset past every entry it
\* read, parsed or not, and when it succeeds the opinion pending at each
\* (timestamp, snap, issuer) is that of the last entry read for it that
\* parses, or the one pending before the fetch when there is none: an entry
\* that does not parse adds nothing and does not stop the entries after it.
C25_UnparsedSkipped ==
    [][(pc = "fetch_ss" /\ ev'.op = "fetch_ss") =>
        LET entries == SubSeq(ss_read', Len(ss_read) + 1, Len(ss_read'))
            good(ts, snap, issuer) ==
                {i \in 1..Len(entries) :
                    /\ IsStatusCredential(entries[i])
                    /\ entries[i].timestamp = ts
                    /\ entries[i].snap = snap
                    /\ entries[i].issuer = issuer}
            last(S) == CHOOSE i \in S : \A j \in S : j <= i
        IN  /\ ss_fetch_offset' = ss_fetch_offset + Len(entries)
            /\ ev'.result = "ok" =>
                  \A ts \in (DOMAIN FetchedSs') \cup (DOMAIN snap_status_updates)
                            \cup {entries[i].timestamp : i \in 1..Len(entries)} :
                  \A snap \in Snaps, issuer \in Issuers :
                      Opinion(FetchedSs', ts, snap, issuer) =
                          IF good(ts, snap, issuer) = {}
                          THEN Opinion(snap_status_updates, ts, snap, issuer)
                          ELSE <<IF entries[last(good(ts, snap, issuer))].current_status
                                      = "Endorsed"
                                 THEN Milli ELSE 0>>]_vars

C25_Witness ==
    /\ ev.op = "fetch_ss" /\ ev.result = "ok" /\ ev.nread = 2
    /\ Len(ss_read) = 2
    /\ ~IsStatusCredential(ss_read[1])
    /\ IsStatusCredential(ss_read[2])
    /\ ss_read[1].timestamp = ss_read[2].timestamp
    /\ ss_fetch_offset = 2
    /\ Opinion(FetchedSs, ss_read[2].timestamp, ss_read[2].snap, ss_read[2].issuer) # <<>>

\* C29: between ticks the pending maps local_trust_updates and
\* snap_status_updates are empty: a tick that returns Ok has taken every
\* pending entry, the empty entries of its fetches included, and holds no
\* record back; a tick that returns an error leaves the maps as they were.
C29_PendingEmpty ==
    /\ pc = "idle" =>
          /\ local_trust_updates = EmptyMap
          /\ snap_status_updates = EmptyMap
    /\ ev.op = "finish" =>
          /\ held = {}
          /\ PendingLt = {} /\ PendingSs = {}

C29_Witness ==
    /\ pc = "idle" /\ ev.op = "finish" /\ tick_work
    /\ n_fail > 0
    /\ last_update_ts >= HeartbeatTs(interval - 1)
    /\ local_trust_updates = EmptyMap

\* C30: the snap scores of a published bundle are computed from snap_statuses
\* as they are before the update that triggered the compute is applied, with
\* the mapping and the trust vector of that compute; the statuses applied
\* before have timestamps not greater than the triggering update's.
C30_PublishedBeforeApply ==
    [][(pc = "merge" /\ ev'.op = "merge" /\ ev'.published = "ok") =>
        /\ \E ord \in OpinionOrders(snap_statuses) :
              snap_scores' =
                  compute_snap_scores(snap_statuses, peer_did_to_id', gt', ord)
        /\ ss_update_ts <= ev'.ts]_vars

C30_Witness ==
    /\ ev.op = "merge" /\ ev.kind = "ss" /\ ev.published = "ok" /\ ev.applied
    /\ "s1" \in DOMAIN snap_scores
    /\ snap_scores["s1"].value = Milli
    /\ snap_statuses["s1"]["did:A"] = 0

\* The run loop against a linear combiner whose main store may hold one
\* peer-ID for two DIDs.
MergeUpdateShared == Merge(DidMappingsShared)

MapNext ==
    \/ FetchLocalTrust
    \/ FetchSnapStatuses
    \/ MergeUpdateShared
    \/ Finish

SpecMap == Init /\ [][MapNext]_vars

\* m2 is the exact inverse of m1: one entry per entry of the other.
ExactInverse(m1, m2) ==
    /\ Cardinality(DOMAIN m1) = Cardinality(DOMAIN m2)
    /\ \A d \in DOMAIN m1 : m1[d] \in DOMAIN m2 /\ m2[m1[d]] = d
    /\ \A id \in DOMAIN m2 : m2[id] \in DOMAIN m1 /\ m1[m2[id]] = id

\* C28: a pass of the merge loop that computes has refreshed the DID mapping
\* first and leaves peer_id_to_did the exact inverse of peer_did_to_id; a
\* pass whose refresh fails, or that does not compute, leaves both maps as
\* they were.
C28_MappingRefreshed ==
    [][(pc = "merge" /\ ev'.op = "merge") =>
        /\ ev'.compute \in {"ok", "failed"} =>
              /\ peer_did_to_id' \in DidMappingsShared
              /\ ExactInverse(peer_did_to_id', peer_id_to_did')
        /\ ev'.compute \in {"aborted", "none"} =>
              UNCHANGED <<peer_did_to_id, peer_id_to_did>>]_vars

-----------------------------------------------------------------------------
(* Domain::compute_snap_scores on its own *)

\* The issuers of the opinions; did:C is unknown to the smaller mapping.
ScoreIssuers == {"did:A", "did:B", "did:C"}

\* The opinions snap_status_from_vc produces: Disputed and Endorsed.
Opinions == {0, Milli}

\* The weights a global trust vector can hold: none, a half and two.
ScoreWeights == {0, Milli \div 2, 2 * Milli}

\* snap_statuses: one snap with at least one opinion.
ScoreStatuses ==
    UNION { [Snaps -> [I -> Opinions]] : I \in (SUBSET ScoreIssuers) \ {{}} }

\* peer_did_to_id
ScoreMappings ==
    { [d \in {"did:A", "did:B"} |-> IF d = "did:A" THEN 0 ELSE 1],
      [d \in ScoreIssuers |-> IF d = "did:A" THEN 0 ELSE IF d = "did:B" THEN 1 ELSE 2] }

\* gt
ScoreVectors == [{0, 1, 2} -> ScoreWeights]

ScoresInit ==
    /\ interval = DefaultInterval
    /\ n_events = 0
    /\ event_ts = {}
    /\ ss_read = <<>>
    /\ local_trust_updates = EmptyMap
    /\ snap_status_updates = EmptyMap
    /\ peer_did_to_id \in ScoreMappings
    /\ peer_id_to_did = Inverse(peer_did_to_id)
    /\ lt_fetch_ts_form1 = 0
    /\ lt_fetch_ts_form0 = 0
    /\ ss_fetch_offset = 0
    /\ ss_update_ts = 0
    /\ last_update_ts = 0
    /\ last_compute_ts = 0
    /\ gt \in ScoreVectors
    /\ snap_statuses \in ScoreStatuses
    /\ snap_scores = EmptyMap
    /\ pc = "idle"
    /\ l_lt = EmptyMap
    /\ l_ss = EmptyMap
    /\ next_lt_update = <<>>
    /\ next_ss_update = <<>>
    /\ ev = NoEvent
    /\ inflight = {}
    /\ held = {}
    /\ unapplied = {}
    /\ max_applied_ts = 0
    /\ n_fail = 0
    /\ computes = <<>>
    /\ tick_work = FALSE
    /\ LcUnused
    /\ IdxUnused
    /\ RestUnused

\* self.compute_snap_scores().await, the opinions of each snap iterated in
\* one of the orders its HashMap can have.
ComputeSnapScores ==
    /\ pc = "idle"
    /\ \E ord \in OpinionOrders(snap_statuses) :
          snap_scores' = compute_snap_scores(snap_statuses, peer_did_to_id, gt, ord)
    /\ pc' = "scored"
    /\ UNCHANGED <<interval, n_events, event_ts, ss_read, local_trust_updates,
                   snap_status_updates, peer_did_to_id, peer_id_to_did,
                   lt_fetch_ts_form1, lt_fetch_ts_form0, ss_fetch_offset,
                   ss_update_ts, last_update_ts, last_compute_ts, gt,
                   snap_statuses, l_lt, l_ss, next_lt_update, next_ss_update,
                   ev, inflight, held, unapplied, max_applied_ts, n_fail,
                   computes, tick_work, lc_vars, idx_vars,
                   rest_vars>>

ScoresNext == ComputeSnapScores

SpecScores == ScoresInit /\ [][ScoresNext]_vars

\* The sum of f over S.
RECURSIVE Sum(_, _)
Sum(f, S) ==
    IF S = {} THEN 0
    ELSE LET x == CHOOSE x \in S : TRUE IN f[x] + Sum(f, S \ {x})

\* The issuers of a snap that are known and have a weight above zero.
Counted(snap) ==
    {i \in DOMAIN snap_statuses[snap] : IssuerWeight(i, peer_did_to_id, gt) > 0}

\* The issuers of a snap that peer_did_to_id does not know.
Unknown(snap) ==
    {i \in DOMAIN snap_statuses[snap] : i \notin DOMAIN peer_did_to_id}

\* C11: the score of a snap is the weighted average of its opinions over the
\* issuers that are known and have weight > 0: the confidence is the sum of
\* the weights and the value the sum of opinion * weight divided by it.
C11_WeightedAverage ==
    pc = "scored" =>
        \A s \in DOMAIN snap_statuses :
            LET w == [i \in Counted(s) |-> IssuerWeight(i, peer_did_to_id, gt)]
                ow == [i \in Counted(s) |-> (snap_statuses[s][i] * w[i]) \div Milli]
            IN  /\ s \in DOMAIN snap_scores
                /\ snap_scores[s].confidence = Sum(w, Counted(s))
                /\ Counted(s) # {} =>
                      snap_scores[s].value =
                          (Sum(ow, Counted(s)) * Milli) \div Sum(w, Counted(s))

\* C12: the scores do not depend on the order the opinions of a snap are
\* iterated in: every order gives the scores that were computed.
C12_Deterministic ==
    pc = "scored" =>
        \A ord \in OpinionOrders(snap_statuses) :
            compute_snap_scores(snap_statuses, peer_did_to_id, gt, ord) = snap_scores

\* C13: a snap whose opinions are all 0 or 1 and whose confidence is above
\* zero has a value between 0 and 1.
C13_ValueInUnitRange ==
    pc = "scored" =>
        \A s \in DOMAIN snap_scores :
            ((\A i \in DOMAIN snap_statuses[s] : snap_statuses[s][i] \in {0, Milli})
                /\ snap_scores[s].confidence > 0)
            => (0 <= snap_scores[s].value /\ snap_scores[s].value <= Milli)

C13_Witness ==
    /\ pc = "scored"
    /\ \E s \in DOMAIN snap_scores :
          /\ Cardinality(Counted(s)) = 3
          /\ snap_scores[s].confidence > 2 * Milli
          /\ snap_scores[s].value > 0

\* C14: the opinions of unknown issuers add nothing: the score of a snap is
\* a score of its opinions from known issuers alone, and a snap whose issuers
\* are all unknown has the entry (0, 0).
C14_UnknownIssuerSkipped ==
    pc = "scored" =>
        \A s \in DOMAIN snap_statuses :
            LET known == (DOMAIN snap_statuses[s]) \ Unknown(s)
                opinions == [i \in known |-> snap_statuses[s][i]]
            IN  /\ s \in DOMAIN snap_scores
                /\ \E order \in Orders(known) :
                      snap_scores[s] =
                          SnapScore(opinions, order, peer_did_to_id, gt,
                                    [value |-> 0, confidence |-> 0])
                /\ known = {} => snap_scores[s] = [value |-> 0, confidence |-> 0]

C14_Witness ==
    /\ pc = "scored"
    /\ \E s \in DOMAIN snap_scores :
          /\ Unknown(s) # {}
          /\ Counted(s) # {}
          /\ snap_statuses[s]["did:C"] = Milli
          /\ snap_scores[s].confidence > 0

-----------------------------------------------------------------------------
(* linear-combiner: LinearCombinerService::sync_transformer *)

\* Records sync_transformer consumes over a run.
MaxTerms == 2

\* A u32 in big-endian bytes is kept as its two 16-bit halves <<high, low>>.
Half == 65536

\* n.to_be_bytes(), for n below 2^31
U32(n) == <<n \div Half, n % Half>>

\* u32::from_be_bytes(b), for values below 2^31
FromU32(b) == b[1] * Half + b[2]

\* u32::MAX
U32Max == <<Half - 1, Half - 1>>

\* a + b does not fit u32
Overflows(a, b) == a[1] + b[1] + ((a[2] + b[2]) \div Half) >= Half

\* a + b modulo 2^32
WrappingAdd(a, b) ==
    <<(a[1] + b[1] + ((a[2] + b[2]) \div Half)) % Half, (a[2] + b[2]) % Half>>

\* The keys of the stores: b"checkpoint", a DID's key, and x || y.
CheckpointKey == <<"checkpoint">>

DidKey(did) == <<"did", did>>

\* key.extend_from_slice(&x); key.extend_from_slice(&y)
MatrixKey(form, x, y) == <<"lt", x, y>>

\* The DIDs and the TermObjects a stream can carry.
LcDids == {"X", "Y", "Z"}

Terms ==
    [from : LcDids, to : LcDids, weight : {U32(1), U32Max}, form : {0, 1}]

\* db.get(key): <<>> for None
DbGet(db, key) == IF key \in DOMAIN db THEN <<db[key]>> ELSE <<>>

\* The score computer and the indexer at rest.
ScUnused ==
    /\ interval = DefaultInterval
    /\ n_events = 0
    /\ event_ts = {}
    /\ ss_read = <<>>
    /\ local_trust_updates = EmptyMap
    /\ snap_status_updates = EmptyMap
    /\ peer_did_to_id = EmptyMap
    /\ peer_id_to_did = EmptyMap
    /\ lt_fetch_ts_form1 = 0
    /\ lt_fetch_ts_form0 = 0
    /\ ss_fetch_offset = 0
    /\ ss_update_ts = 0
    /\ last_update_ts = 0
    /\ last_compute_ts = 0
    /\ gt = EmptyMap
    /\ snap_statuses = EmptyMap
    /\ snap_scores = EmptyMap
    /\ pc = "idle"
    /\ l_lt = EmptyMap
    /\ l_ss = EmptyMap
    /\ next_lt_update = <<>>
    /\ next_ss_update = <<>>
    /\ ev = NoEvent
    /\ inflight = {}
    /\ held = {}
    /\ unapplied = {}
    /\ max_applied_ts = 0
    /\ n_fail = 0
    /\ computes = <<>>
    /\ tick_work = FALSE

\* LinearCombinerService::new on empty stores: checkpoint 0.
LcInit == ScUnused /\ LcUnused /\ IdxUnused /\ RestUnused

\* sync_transformer up to its loop: the stores are opened and the local
\* offset is read from the checkpoint.
SyncTransformerOpen ==
    /\ lc_call = <<>>
    /\ lc_terms < MaxTerms
    /\ lc_call' = <<FromU32(IF CheckpointKey \in DOMAIN main_db
                            THEN main_db[CheckpointKey] ELSE <<0, 0>>)>>
    /\ lc_ev' = [op |-> "open"]
    /\ UNCHANGED <<main_db, updates_db, lc_terms, first_id, key_forms,
                   sc_vars, idx_vars, rest_vars>>

\* let x = if let Some(from_i) = from_index { from_i } else { .. }: the bytes
\* main holds for the DID, or the next offset, which is stored and bumped.
Resolve(db, index, did, offset) ==
    IF index # <<>>
    THEN [bytes |-> index[1], db |-> db, offset |-> offset]
    ELSE [bytes |-> U32(offset),
          db |-> Put(db, DidKey(did), U32(offset)),
          offset |-> offset + 1]

\* main_db.get(&to_did.key).unwrap().map_or([0; 4], ..): the bytes the old
\* value is taken from.
ReadValue(db, to_did) ==
    IF DidKey(to_did) \in DOMAIN db THEN db[DidKey(to_did)] ELSE <<0, 0>>

\* A handler that leaves the main store as it was.
MainWriteSkipped(db, key, new_value) == db

\* main_db.put(key.clone(), new_value)
MainWrite(db, key, new_value) == Put(db, key, new_value)

\* One pass of the while loop on a record, the local offset being offset.
TermResult(db, offset, term) ==
    LET from_index == DbGet(db, DidKey(term.from))
        to_index == DbGet(db, DidKey(term.to))
        fx == Resolve(db, from_index, term.from, offset)
        ty == Resolve(fx.db, to_index, term.to, fx.offset)
        value == ReadValue(ty.db, term.to)
    IN  [db |-> ty.db, offset |-> ty.offset, x |-> fx.bytes, y |-> ty.bytes,
         key |-> MatrixKey(term.form, fx.bytes, ty.bytes),
         value |-> value,
         overflow |-> Overflows(value, term.weight),
         new_value |-> WrappingAdd(value, term.weight)]

\* The IDs first assigned, after a pass.
FirstAssigned(ids, term, r) ==
    LET f == IF term.from \in DOMAIN ids THEN ids
             ELSE Put(ids, term.from, FromU32(r.x))
    IN  IF term.to \in DOMAIN f THEN f ELSE Put(f, term.to, FromU32(r.y))

\* sync_transformer, one record of the stream. value + term.weight panics on
\* overflow in a build with overflow checks and wraps in one without.
SyncTransformerTerm(term, panics) ==
    /\ lc_call # <<>>
    /\ lc_terms < MaxTerms
    /\ \E r \in {TermResult(main_db, lc_call[1], term)} :
        /\ panics => r.overflow
        /\ main_db' = IF panics THEN r.db ELSE MainWrite(r.db, r.key, r.new_value)
        /\ updates_db' = IF panics THEN updates_db
                         ELSE Put(updates_db, r.key, r.new_value)
        /\ lc_call' = IF panics THEN <<>> ELSE <<r.offset>>
        /\ first_id' = FirstAssigned(first_id, term, r)
        /\ key_forms' = IF panics THEN key_forms
                        ELSE Put(key_forms, r.key,
                                 Get(key_forms, r.key, {}) \cup {term.form})
        /\ lc_ev' = [op |-> "term", term |-> term, key |-> r.key,
                     x |-> r.x, y |-> r.y, old |-> DbGet(main_db, r.key),
                     new_value |-> r.new_value, panicked |-> panics]
    /\ lc_terms' = lc_terms + 1
    /\ UNCHANGED <<sc_vars, idx_vars, rest_vars>>

\* The stream ends (or fails): the handler returns and its local offset is
\* dropped.
SyncTransformerClose ==
    /\ lc_call # <<>>
    /\ lc_call' = <<>>
    /\ lc_ev' = [op |-> "close"]
    /\ UNCHANGED <<main_db, updates_db, lc_terms, first_id, key_forms,
                   sc_vars, idx_vars, rest_vars>>

LcNext ==
    \/ SyncTransformerOpen
    \/ \E term \in Terms, panics \in BOOLEAN : SyncTransformerTerm(term, panics)
    \/ SyncTransformerClose

SpecLC == LcInit /\ [][LcNext]_vars

\* The greatest member of a set of numbers.
MaxOf(S) == CHOOSE x \in S : \A y \in S : y <= x

\* The peer-IDs assigned so far: those first assigned and those main holds.
AssignedIds ==
    {first_id[d] : d \in DOMAIN first_id}
    \cup {FromU32(main_db[DidKey(d)]) : d \in DOMAIN first_id}

\* C15: when no sync_transformer call is in progress, the checkpoint in the
\* main store is 1 + the greatest peer-ID assigned, 0 when none was.
C15_Checkpoint ==
    lc_call = <<>> =>
        FromU32(main_db[CheckpointKey]) =
            (IF AssignedIds = {} THEN 0 ELSE 1 + MaxOf(AssignedIds))

\* C16: a DID keeps the peer-ID it was first assigned, no two DIDs have the
\* same peer-ID, and the IDs in the matrix key of a record are those main
\* holds for its DIDs.
C16_StableIds ==
    /\ \A d \in DOMAIN first_id : main_db[DidKey(d)] = U32(first_id[d])
    /\ \A d, e \in DOMAIN first_id :
          d # e => main_db[DidKey(d)] # main_db[DidKey(e)]
    /\ lc_ev.op = "term" =>
          /\ lc_ev.x = main_db[DidKey(lc_ev.term.from)]
          /\ lc_ev.y = main_db[DidKey(lc_ev.term.to)]

\* C17: a record leaves at its matrix key, in both stores, the weight the
\* main store held at that key before (0 if none) plus the record's weight,
\* saturating at u32::MAX.
C17_SaturatingSum ==
    lc_ev.op = "term" =>
        LET old == IF lc_ev.old = <<>> THEN <<0, 0>> ELSE lc_ev.old[1]
            sum == IF Overflows(old, lc_ev.term.weight) THEN U32Max
                   ELSE WrappingAdd(old, lc_ev.term.weight)
        IN  /\ ~lc_ev.panicked
            /\ lc_ev.key \in DOMAIN main_db /\ main_db[lc_ev.key] = sum
            /\ lc_ev.key \in DOMAIN updates_db /\ updates_db[lc_ev.key] = sum

\* C18: no matrix key is written by records of both forms.
C18_FormsSeparate ==
    \A k \in DOMAIN key_forms : Cardinality(key_forms[k]) <= 1

\* C19: when a record has been written to the update store, the main store
\* holds the same key with the same value.
C19_UpdateMirrorsMain ==
    (lc_ev.op = "term" /\ ~lc_ev.panicked) =>
        /\ lc_ev.key \in DOMAIN updates_db
        /\ updates_db[lc_ev.key] = lc_ev.new_value
        /\ lc_ev.key \in DOMAIN main_db
        /\ main_db[lc_ev.key] = updates_db[lc_ev.key]

C19_Witness ==
    /\ lc_ev.op = "term" /\ ~lc_ev.panicked
    /\ lc_ev.old # <<>>
    /\ lc_ev.old[1] # lc_ev.new_value
    /\ updates_db[lc_ev.key] = lc_ev.new_value

-----------------------------------------------------------------------------
\* indexer: IndexerService::subscribe

\* The longest cache file considered, in records.
MaxLog == 2

\* The count the score computer asks for.
FetchCount == 1000000

\* The rows of the cache file after its header: four columns, of which
\* column 1 is the timestamp, 2 the schema id and 3 the value.
IdxRows ==
    { <<"0", "1000", "4", "a">>, <<"1", "x", "4", "b">> }

\* str::parse of a decimal column; unwrap_or(0) for anything else.
ParseOrZero(s) ==
    CASE s = "4" -> 4
      [] s = "1000" -> 1000
      [] OTHER -> 0

Min(a, b) == IF a <= b THEN a ELSE b

\* The server's state once serve() has read its data: the cache file and the
\* number of records held in data.
IdxInit ==
    /\ ScUnused
    /\ LcUnused
    /\ idx_file \in SeqsUpTo(IdxRows, MaxLog)
    /\ idx_data_len = Len(idx_file)
    /\ idx_query = <<>>
    /\ idx_stream = <<>>
    /\ RestUnused

\* limit = min(offset + count, data.len())
Limit(offset, count) == Min(offset + count, idx_data_len)

\* for i in offset..limit { csv_reader.records().next(); }: the records read
\* and dropped before collecting (none when limit <= offset).
Skip(offset, limit) == IF limit > offset THEN limit - offset ELSE 0

\* The records left in the reader after n were read.
Rest(rows, n) == SubSeq(rows, Min(n, Len(rows)) + 1, Len(rows))

\* into_records().take(n)
Take(rows, n) == SubSeq(rows, 1, Min(n, Len(rows)))

\* The event sent for the record at `index` of the collected records.
Event(index, offset, r) ==
    [id |-> index + offset,
     schema_id |-> ParseOrZero(r[3]),
     schema_value |-> r[4],
     timestamp |-> ParseOrZero(r[2])]

\* The events the spawned task sends for a query.
Events(offset, count) ==
    LET limit == Limit(offset, count)
        records == Take(Rest(idx_file, Skip(offset, limit)), limit)
    IN  [i \in 1..Len(records) |-> Event(i - 1, offset, records[i])]

\* subscribe, with the stream read to its end.
Subscribe(offset, count) ==
    /\ idx_query' = <<[offset |-> offset, count |-> count]>>
    /\ idx_stream' = Events(offset, count)
    /\ UNCHANGED <<idx_file, idx_data_len, sc_vars, lc_vars, rest_vars>>

IdxNext ==
    \E offset \in 0..(MaxLog + 1), count \in (0..MaxLog) \cup {FetchCount} :
        Subscribe(offset, count)

SpecIdx == IdxInit /\ [][IdxNext]_vars

\* C20: subscribe(offset, count) over a log of N entries streams the entries
\* at positions offset <= p < min(offset + count, N), in order, each with
\* id = p; in particular nothing when offset = N.
C20_SubscribeWindow ==
    idx_query # <<>> =>
        LET q == idx_query[1]
            hi == Min(q.offset + q.count, Len(idx_file))
            n == IF hi > q.offset THEN hi - q.offset ELSE 0
        IN  idx_stream =
                [i \in 1..n |-> Event(i - 1, q.offset, idx_file[q.offset + i])]

-----------------------------------------------------------------------------
\* snap-score-computer: Main::main and Main::run_once, the tick driver

\* Ticks of the interval timer.
MaxTicks == 2

\* The domain ids the arguments can name.
DomainIds == {1, 2, 3}

\* A domain as Main::new builds it. Of a domain's fields the driver's model
\* keeps the number of run_once calls and a version that a call may advance.
NewDomain == [runs |-> 0, version |-> 0]

DrvInit ==
    /\ ScUnused
    /\ LcUnused
    /\ IdxUnused
    /\ lc_client = "none"
    /\ UmUnused
    /\ drv_pc = "init"
    /\ drv_left = {}
    /\ drv_domains \in {[d \in D |-> NewDomain] : D \in SUBSET DomainIds}
    /\ drv_log = <<>>
    /\ drv_ticks = 0

\* self.init_et().await?: an error ends main before the loop.
InitEt(ok) ==
    /\ drv_pc = "init"
    /\ drv_pc' = IF ok THEN "sleep" ELSE "exited"
    /\ UNCHANGED <<drv_left, drv_domains, drv_log, drv_ticks,
                   sc_vars, lc_vars, idx_vars, lc_client, um_vars>>

\* interval.tick().await, then run_once up to its for loop: when a client
\* cannot connect run_once returns the error, which main logs.
TickStart(connected) ==
    /\ drv_pc = "sleep"
    /\ drv_ticks < MaxTicks
    /\ drv_ticks' = drv_ticks + 1
    /\ drv_log' = <<>>
    /\ drv_left' = IF connected THEN DOMAIN drv_domains ELSE {}
    /\ drv_pc' = IF drv_left' = {} THEN "sleep" ELSE "run"
    /\ UNCHANGED <<drv_domains, sc_vars, lc_vars, idx_vars, lc_client, um_vars>>

\* for (&domain_id, domain) in &mut self.domains: a BTreeMap iterates in
\* ascending key order.
NextDomain(left) == CHOOSE d \in left : \A e \in left : d <= e

\* A loop that returns at the first domain error.
AfterDomainStop(result, left) == IF result = "err" THEN {} ELSE left

\* if let Err(e) = domain.run_once(..).await { error!(..) }: the loop goes on
\* with the domains left.
AfterDomain(result, left) == left

\* One pass of the for loop: Domain::run_once borrows this domain only.
RunDomain(result, changed) ==
    /\ drv_pc = "run"
    /\ LET d == NextDomain(drv_left)
       IN  /\ drv_domains' =
                 [drv_domains EXCEPT
                    ![d] = [runs |-> @.runs + 1,
                            version |-> @.version + (IF changed THEN 1 ELSE 0)]]
           /\ drv_log' = Append(drv_log, [id |-> d, result |-> result])
           /\ drv_left' = AfterDomain(result, drv_left \ {d})
    /\ drv_pc' = IF drv_left' = {} THEN "sleep" ELSE "run"
    /\ UNCHANGED <<drv_ticks, sc_vars, lc_vars, idx_vars, lc_client, um_vars>>

DrvNext ==
    \/ \E ok \in BOOLEAN : InitEt(ok)
    \/ \E connected \in BOOLEAN : TickStart(connected)
    \/ \E result \in {"ok", "err"}, changed \in BOOLEAN : RunDomain(result, changed)

SpecDriver == DrvInit /\ [][DrvNext]_vars

\* C26: in a tick the domains run in ascending domain_id order; a tick whose
\* clients connected has run every domain when it ends, whatever the results
\* of the domains before; a domain's run changes no other domain; and once
\* initialised the driver is always waiting for a tick or running one.
C26_DomainErrorIsolated ==
    /\ [](\A i, j \in 1..Len(drv_log) : i < j => drv_log[i].id < drv_log[j].id)
    /\ []((drv_pc = "sleep" /\ drv_log # <<>>) =>
            {drv_log[i].id : i \in 1..Len(drv_log)} = DOMAIN drv_domains)
    /\ [][(Len(drv_log') = Len(drv_log) + 1) =>
            (\A e \in DOMAIN drv_domains :
                e # drv_log'[Len(drv_log')].id => drv_domains'[e] = drv_domains[e])]_vars
    /\ [][(drv_pc \in {"sleep", "run"}) => (drv_pc' \in {"sleep", "run"})]_vars

C26_Witness ==
    /\ drv_pc = "sleep" /\ drv_ticks = 2
    /\ Len(drv_log) = 3
    /\ drv_log[1].result = "err"
    /\ drv_log[2].result = "ok"
    /\ drv_domains[3].runs = 2

-----------------------------------------------------------------------------
\* linear-combiner: UpdateManager (managers/update.rs)

\* The greatest n a read_batch is called with.
MaxBatch == 2

\* Keys of the update family: a prefix followed by the cell (x, y); as bytes
\* they order by prefix, then x, then y.
UmPrefixes == {0, 1}

UmKeys == {<<p, x, 0>> : p \in UmPrefixes, x \in {0, 1}}

UmValues == {50, 60}

\* Byte order of two keys.
KeyLess(a, b) ==
    \/ a[1] < b[1]
    \/ a[1] = b[1] /\ a[2] < b[2]
    \/ a[1] = b[1] /\ a[2] = b[2] /\ a[3] < b[3]

\* The keys of S in ascending order.
RECURSIVE SortedKeys(_)
SortedKeys(S) ==
    IF S = {} THEN <<>>
    ELSE LET k == CHOOSE a \in S : \A b \in S \ {a} : KeyLess(a, b)
         IN  <<k>> \o SortedKeys(S \ {k})

\* LtItem::from_raw(key, value): the cell after the prefix, and the value.
FromRaw(key, value) == [x |-> key[2], y |-> key[3], value |-> value]

\* LtItem::key_bytes
KeyBytes(item) == <<item.x, item.y>>

UmInit ==
    /\ ScUnused
    /\ LcUnused
    /\ IdxUnused
    /\ lc_client = "none"
    /\ DrvUnused
    /\ UmUnused

\* What a later call remembers of the call before it.
Before == [x \in (DOMAIN um_ev) \ {"before"} |-> um_ev[x]]

\* UpdateManager::set_value
SetValue(key, value) ==
    /\ update_cf' = Put(update_cf, key, value)
    /\ um_ev' = [op |-> "set", key |-> key, value |-> value]
    /\ UNCHANGED <<sc_vars, lc_vars, idx_vars, lc_client, drv_vars>>

\* db.prefix_iterator_cf(&cf, prefix): the keys from the first one that is not
\* below the prefix (the family has no prefix extractor).
PrefixIterator(cf, prefix) ==
    SortedKeys({k \in DOMAIN cf : k[1] >= prefix})

\* iter.set_mode(IteratorMode::Start): the iterator is moved to the first key
\* of the family.
SetModeStart(cf, iter) == SortedKeys(DOMAIN cf)

\* iter.take(size)
TakeKeys(keys, n) == SubSeq(keys, 1, IF n < Len(keys) THEN n ELSE Len(keys))

\* UpdateManager::read_batch
ReadBatch(prefix, n) ==
    /\ LET keys == TakeKeys(SetModeStart(update_cf, PrefixIterator(update_cf, prefix)), n)
       IN  um_ev' = [op |-> "read", prefix |-> prefix, n |-> n,
                     raw |-> [i \in 1..Len(keys) |-> <<keys[i], update_cf[keys[i]]>>],
                     items |-> [i \in 1..Len(keys) |->
                                   FromRaw(keys[i], update_cf[keys[i]])],
                     before |-> Before]
    /\ UNCHANGED <<update_cf, sc_vars, lc_vars, idx_vars, lc_client, drv_vars>>

\* UpdateManager::delete_batch with the items the last read_batch returned:
\* each is deleted at the key prefix || key_bytes.
DeleteBatch(prefix) ==
    /\ um_ev.op = "read"
    /\ LET keys == {<<prefix>> \o KeyBytes(um_ev.items[i]) : i \in 1..Len(um_ev.items)}
       IN  update_cf' = [k \in (DOMAIN update_cf) \ keys |-> update_cf[k]]
    /\ um_ev' = [op |-> "delete", prefix |-> prefix, read_prefix |-> um_ev.prefix,
                 n |-> um_ev.n, raw |-> um_ev.raw]
    /\ UNCHANGED <<sc_vars, lc_vars, idx_vars, lc_client, drv_vars>>

UmNext ==
    \/ \E key \in UmKeys, value \in UmValues : SetValue(key, value)
    \/ \E prefix \in UmPrefixes, n \in 0..MaxBatch : ReadBatch(prefix, n)
    \/ \E prefix \in UmPrefixes : DeleteBatch(prefix)

SpecUM == UmInit /\ [][UmNext]_vars

\* The (key, value) pairs of a read.
Pairs(raw) == {raw[i] : i \in 1..Len(raw)}

\* C21: a read_batch(prefix, n) that follows set_value(key, v) with a key of
\* that prefix, n not less than the number of keys of the prefix, returns
\* (key, v); and a read_batch(prefix, n) that follows delete_batch(prefix,
\* items), the items being those of a read_batch(prefix, n), returns none of
\* them.
C21_ReadDeleteRoundTrip ==
    um_ev.op = "read" =>
        /\ (/\ um_ev.before.op = "set"
            /\ um_ev.before.key[1] = um_ev.prefix
            /\ um_ev.n >= Cardinality({k \in DOMAIN update_cf : k[1] = um_ev.prefix}))
              => <<um_ev.before.key, um_ev.before.value>> \in Pairs(um_ev.raw)
        /\ (/\ um_ev.before.op = "delete"
            /\ um_ev.before.prefix = um_ev.prefix
            /\ um_ev.before.read_prefix = um_ev.prefix
            /\ um_ev.before.n = um_ev.n)
              => Pairs(um_ev.raw) \cap Pairs(um_ev.before.raw) = {}

\* C27: read_batch(prefix, n) returns at most n items, each with a key that
\* starts with prefix, in ascending key order.
C27_ReadBatchPrefix ==
    um_ev.op = "read" =>
        /\ Len(um_ev.raw) <= um_ev.n
        /\ \A i \in 1..Len(um_ev.raw) : um_ev.raw[i][1][1] = um_ev.prefix
        /\ \A i, j \in 1..Len(um_ev.raw) :
              i < j => KeyLess(um_ev.raw[i][1], um_ev.raw[j][1])

-----------------------------------------------------------------------------
\* linear-combiner: sync_transformer called by two clients

Clients == {"a", "b"}

\* The stores as LinearCombinerService::new leaves them; lc_ev also keeps the
\* clients whose call was served and those whose call was refused.
Lc2Init ==
    /\ ScUnused
    /\ IdxUnused
    /\ RestUnused
    /\ main_db = [k \in {CheckpointKey} |-> <<0, 0>>]
    /\ updates_db = EmptyMap
    /\ lc_call = <<>>
    /\ lc_terms = 0
    /\ lc_ev = [op |-> "none", served |-> {}, refused |-> {}]
    /\ first_id = EmptyMap
    /\ key_forms = EmptyMap

\* sync_transformer of client c, up to the loop. DB::open_default takes the
\* store's lock: while the call of another client holds the stores it fails
\* and the unwrap panics, so that the call of c serves no record.
ClientOpen(c) ==
    /\ lc_client # c
    /\ lc_terms < MaxTerms
    /\ IF lc_client = "none"
       THEN /\ lc_client' = c
            /\ lc_call' = <<FromU32(IF CheckpointKey \in DOMAIN main_db
                                    THEN main_db[CheckpointKey] ELSE <<0, 0>>)>>
            /\ lc_ev' = [op |-> "open", served |-> lc_ev.served \cup {c},
                         refused |-> lc_ev.refused]
       ELSE /\ UNCHANGED <<lc_client, lc_call>>
            /\ lc_ev' = [op |-> "refused", served |-> lc_ev.served,
                         refused |-> lc_ev.refused \cup {c}]
    /\ UNCHANGED <<main_db, updates_db, lc_terms, first_id, key_forms,
                   sc_vars, idx_vars, um_vars, drv_vars>>

\* One record of the stream of client c.
ClientTerm(c, term, panics) ==
    /\ lc_client = c
    /\ lc_terms < MaxTerms
    /\ \E r \in {TermResult(main_db, lc_call[1], term)} :
        /\ panics => r.overflow
        /\ main_db' = IF panics THEN r.db ELSE MainWrite(r.db, r.key, r.new_value)
        /\ updates_db' = IF panics THEN updates_db
                         ELSE Put(updates_db, r.key, r.new_value)
        /\ lc_call' = IF panics THEN <<>> ELSE <<r.offset>>
        /\ first_id' = FirstAssigned(first_id, term, r)
        /\ key_forms' = IF panics THEN key_forms
                        ELSE Put(key_forms, r.key,
                                 Get(key_forms, r.key, {}) \cup {term.form})
    /\ lc_client' = IF panics THEN "none" ELSE c
    /\ lc_ev' = [op |-> "term", served |-> lc_ev.served, refused |-> lc_ev.refused]
    /\ lc_terms' = lc_terms + 1
    /\ UNCHANGED <<sc_vars, idx_vars, um_vars, drv_vars>>

\* The stream of client c ends: the handler returns and drops the stores.
ClientClose(c) ==
    /\ lc_client = c
    /\ lc_client' = "none"
    /\ lc_call' = <<>>
    /\ lc_ev' = [op |-> "close", served |-> lc_ev.served, refused |-> lc_ev.refused]
    /\ UNCHANGED <<main_db, updates_db, lc_terms, first_id, key_forms,
                   sc_vars, idx_vars, um_vars, drv_vars>>

Lc2Next ==
    \/ \E c \in Clients : ClientOpen(c)
    \/ \E c \in Clients, term \in Terms, panics \in BOOLEAN : ClientTerm(c, term, panics)
    \/ \E c \in Clients : ClientClose(c)

SpecLC2 == Lc2Init /\ [][Lc2Next]_vars

\* C24: once both clients have called sync_transformer and no call is in
\* progress, no two DIDs hold the same peer-ID and the checkpoint is 1 + the
\* greatest peer-ID assigned.
C24_ConcurrentCalls ==
    (lc_client = "none" /\ lc_ev.served \cup lc_ev.refused = Clients) =>
        /\ \A d, e \in DOMAIN first_id :
              d # e => main_db[DidKey(d)] # main_db[DidKey(e)]
        /\ FromU32(main_db[CheckpointKey]) =
              (IF AssignedIds = {} THEN 0 ELSE 1 + MaxOf(AssignedIds))

-----------------------------------------------------------------------------
\* snap-score-computer: the loop of fetch_snap_statuses over the indexer's
\* subscribe

\* The messages of a stream as the loop reads them. The schema_value of a
\* row of the cache file ("a", "b") is not the JSON of a credential.
FromIndexer(events) ==
    [i \in 1..Len(events) |->
        [id |-> events[i].id,
         entry |-> [well_formed |-> FALSE, timestamp |-> events[i].timestamp]]]

\* last_timestamp after the messages read so far in the call.
RECURSIVE LastTimestamp(_)
LastTimestamp(events) ==
    IF events = <<>> THEN <<>>
    ELSE LaterOf(LastTimestamp(SubSeq(events, 1, Len(events) - 1)),
                 events[Len(events)].timestamp)

\* The indexer serves a cache file; the domain is as Main::new built it.
LoopInit == IdxInit

\* One pass of the `while more` loop: subscribe at the domain's offset and
\* read the stream to its end. A stream without a message ends the loop, and
\* fetch_snap_statuses returns after adding the heartbeat entry.
SubscribeAndRead ==
    /\ pc = "fetch_ss"
    /\ \E events \in {Events(ss_fetch_offset, FetchCount)} :
       \E r \in {ReadSsStream(FromIndexer(events),
                    [fetch_offset |-> ss_fetch_offset,
                     last_timestamp |-> LastTimestamp(ss_read),
                     updates |-> IF ev.op = "subscribe" THEN l_ss
                                 ELSE snap_status_updates,
                     read |-> {}])} :
        /\ idx_query' = <<[offset |-> ss_fetch_offset, count |-> FetchCount]>>
        /\ idx_stream' = events
        /\ ss_fetch_offset' = r.fetch_offset
        /\ ss_read' = ss_read \o events
        /\ l_ss' = IF events = <<>> THEN WithHeartbeat(r.updates, r.last_timestamp)
                   ELSE r.updates
        /\ pc' = IF events = <<>> THEN "merge" ELSE "fetch_ss"
        /\ ev' = [NoEvent EXCEPT !.op = "subscribe", !.nread = Len(events),
                    !.maxts = IF r.last_timestamp = <<>> THEN 0
                              ELSE r.last_timestamp[1]]
    /\ UNCHANGED <<interval, n_events, event_ts, local_trust_updates,
                   snap_status_updates, peer_did_to_id, peer_id_to_did,
                   lt_fetch_ts_form1, lt_fetch_ts_form0, ss_update_ts,
                   last_update_ts, last_compute_ts, gt, snap_statuses,
                   snap_scores, l_lt, next_lt_update, next_ss_update, inflight,
                   held, unapplied, max_applied_ts, n_fail, computes, tick_work,
                   idx_file, idx_data_len, lc_vars, rest_vars>>

LoopNext ==
    \/ FetchLocalTrust
    \/ SubscribeAndRead

SpecLoop == LoopInit /\ [][LoopNext]_vars

\* C23: when the loop of fetch_snap_statuses has ended, every entry of the
\* indexer's log has been read exactly once, in order, under its position.
C23_LoopReadsLog ==
    pc = "merge" =>
        ss_read = [i \in 1..Len(idx_file) |-> Event(i - 1, 0, idx_file[i])]

====
